---------------------------- MODULE Spec2Model ----------------------------
(***************************************************************************)
(* Model of constance/admin.py: the live-settings admin view               *)
(* (ConstanceAdmin.changelist_view) and its form (ConstanceForm), run by   *)
(* concurrent admin sessions against one shared backend store.             *)
(*                                                                         *)
(* Values are records [t, v]: t is the Python type of the value, v an      *)
(* integer payload (for bool: 1 = True, 0 = False).  Byte strings and      *)
(* request strings are sequences of one-character strings.                 *)
(*                                                                         *)
(* One request is a sequence of steps, each holding at most one access to  *)
(* the shared store:                                                       *)
(*   Get, Post   lines 130-177: permission check, bulk read, form          *)
(*               construction and, for a POST, validation; ends in access  *)
(*               denied, a configuration error, a rendered page, or the    *)
(*               start of save()                                           *)
(*   SaveField   one iteration of the loop of save(), line 102; the last   *)
(*               one also answers with the message and the redirect        *)
(* Setting names are taken distinct from the form's own field 'version'.   *)
(***************************************************************************)
EXTENDS Integers, Sequences, FiniteSets, TLC

\* ------------------------------------------------------------------ bounds
\* The numbers operators submit are written 1, 11, ... with at most
\* MaxDigits digits, possibly after a leading 0.
MaxDigits == 2

\* ------------------------------------------------------------------ values
IntVal(i) == [t |-> "int", v |-> i]
BoolVal(b) == [t |-> "bool", v |-> IF b THEN 1 ELSE 0]
\* An instance of a class the type registry does not know.
CustomVal == [t |-> "custom", v |-> 0]
\* The backend holds no value under the key.
Absent == [t |-> "absent", v |-> 0]

\* type(default), line 85
TypeOf(val) == val.t

DigitChars == <<"0", "1", "2", "3", "4", "5", "6", "7", "8", "9">>

\* str(int) for a non-negative int: its decimal digits
RECURSIVE IntToStr(_)
IntToStr(n) ==
    IF n < 10 THEN <<DigitChars[n + 1]>>
    ELSE IntToStr(n \div 10) \o <<DigitChars[(n % 10) + 1]>>

DigitOf(c) == CHOOSE d \in 0..9 : DigitChars[d + 1] = c

IsDigit(c) == \E d \in 0..9 : DigitChars[d + 1] = c

\* int(str) for a string of decimal digits
RECURSIVE StrToInt(_)
StrToInt(s) ==
    IF Len(s) = 0 THEN 0
    ELSE 10 * StrToInt(SubSeq(s, 1, Len(s) - 1)) + DigitOf(s[Len(s)])

\* smart_bytes(value), line 97: the bytes of str(value)
smart_bytes(val) ==
    CASE val.t = "int" -> IntToStr(val.v)
      [] val.t = "bool" -> IF val.v = 1 THEN <<"T", "r", "u", "e">>
                           ELSE <<"F", "a", "l", "s", "e">>
      [] OTHER -> <<"o", "b", "j">>

\* ---------------------------------------------------------- type registry
\* FIELDS, lines 36-45, restricted to the types the schemas below use.
FIELDS == [bool |-> "BooleanField", int |-> "IntegerField"]

\* ---------------------------------------------------------------- schemas
\* settings.CONFIG.items(): a sequence of <<name, options>>, options being
\* <<default, help_text>> or <<default, help_text, type>>.
Names == {"A", "B"}

\* The order of setting names (string comparison).
NameOrd == [A |-> 1, B |-> 2]

Schemas ==
    { << <<"B", <<IntVal(1), "help">> >>, <<"A", <<IntVal(11), "help">> >> >>,
      << <<"A", <<BoolVal(FALSE), "help">> >>, <<"B", <<IntVal(1), "help", "int">> >> >>,
      << <<"A", <<IntVal(1), "help">> >>, <<"B", <<IntVal(1), "help", "custom">> >> >>,
      << <<"B", <<CustomVal, "help">> >>, <<"A", <<IntVal(1), "help">> >> >> }

Sessions == {"s1", "s2"}

\* request.user: is_superuser, and whether the standard change permission
\* (ModelAdmin.has_change_permission) is granted.
SuperUser == [is_superuser |-> TRUE, change_perm |-> TRUE]
Staff == [is_superuser |-> FALSE, change_perm |-> TRUE]
Guest == [is_superuser |-> FALSE, change_perm |-> FALSE]

VARIABLES
    CONFIG,          \* settings.CONFIG
    SUPERUSER_ONLY,  \* settings.SUPERUSER_ONLY
    user,            \* per session: the user logged in
    store,           \* the backend: name -> value or Absent
    pc,              \* per session: "idle", or "save" inside form.save()
    response,        \* per session: the answer to its last request
    browser,         \* per session: the form of the page a GET last sent it
    cleaned_data,    \* per session: form.cleaned_data of the POST being saved
    saveIdx,         \* per session: position of save()'s loop in CONFIG
    log,             \* per session: what its last request did (history)
    lastSaved        \* per setting: the value save() last wrote (history)

vars == <<CONFIG, SUPERUSER_ONLY, user, store, pc, response, browser,
          cleaned_data, saveIdx, log, lastSaved>>

\* ---------------------------------------------------------------- backend
\* config._backend.mget(keys): the stored values among keys, as a mapping.
mget(st, keys) ==
    LET present == {k \in keys : st[k] # Absent}
    IN  [k \in present |-> st[k]]

\* config._backend.set(key, value), reached through setattr(config, key, value)
backend_set(st, key, value) == [st EXCEPT ![key] = value]

\* ------------------------------------------------------------------- form
SettingNames(cfg) == {cfg[i][1] : i \in 1..Len(cfg)}

OptionsOf(cfg, name) == cfg[CHOOSE i \in 1..Len(cfg) : cfg[i][1] = name][2]

\* Mutant of ConfigType: the explicit type of a setting is ignored.
ConfigTypeOfDefault(options) == TypeOf(options[1])

\* lines 82-85
ConfigType(options) ==
    IF Len(options) = 3 THEN options[3] ELSE TypeOf(options[1])

\* Mutant of InitialOf: the defaults are laid over the backend's values.
InitialOfDefaultsWin(cfg, st) ==
    LET default_initial == [n \in SettingNames(cfg) |-> OptionsOf(cfg, n)[1]]
    IN  default_initial @@ mget(st, SettingNames(cfg))

\* lines 132-136: defaults overlaid with what the backend holds
InitialOf(cfg, st) ==
    LET default_initial == [n \in SettingNames(cfg) |-> OptionsOf(cfg, n)[1]]
    IN  mget(st, SettingNames(cfg)) @@ default_initial

\* The loop of ConstanceForm.__init__, lines 80-97, over the settings left.
RECURSIVE FormLoop(_, _, _, _)
FormLoop(cfg, initial, fields, version_hash) ==
    IF cfg = <<>>
    THEN [ok |-> TRUE, fields |-> fields, version |-> version_hash,
          bad |-> <<>>]
    ELSE LET name == cfg[1][1]
             config_type == ConfigType(cfg[1][2])
         IN  IF config_type \notin DOMAIN FIELDS
             THEN [ok |-> FALSE, fields |-> fields, version |-> <<>>,
                   bad |-> <<name, config_type>>]
             ELSE FormLoop(Tail(cfg), initial,
                           (name :> FIELDS[config_type]) @@ fields,
                           version_hash \o smart_bytes(initial[name]))

\* Mutant of ConstanceForm: the fields of the settings replace the declared
\* fields of the form instead of joining them.
ConstanceFormWithoutDeclaredFields(cfg, initial) ==
    FormLoop(cfg, initial, <<>>, <<>>)

\* ConstanceForm.__init__, lines 76-98.  The md5 digest is taken to be
\* collision free: it is represented by the bytes fed to update().
ConstanceForm(cfg, initial) ==
    FormLoop(cfg, initial, [f \in {"version"} |-> "CharField"], <<>>)

\* What the widget of a field shows for a value, and so what the browser
\* submits when the operator leaves the field alone: a text input holds
\* str(value); a checkbox is submitted as "on" when ticked and not at all
\* (empty here) when not.
Rendered(field_class, val) ==
    IF field_class = "BooleanField"
    THEN (IF val.v = 1 THEN <<"o", "n">> ELSE <<>>)
    ELSE smart_bytes(val)

NoValue == [t |-> "invalid", v |-> 0]

\* Field.clean of the registry's field classes: the cleaned value, or
\* NoValue when validation fails.  IntegerField is required and wants
\* decimal digits; BooleanField (required=False) takes any submitted string.
FieldClean(field_class, s) ==
    CASE field_class = "IntegerField" ->
            IF Len(s) > 0 /\ \A i \in 1..Len(s) : IsDigit(s[i])
            THEN IntVal(StrToInt(s)) ELSE NoValue
      [] field_class = "BooleanField" ->
            IF s \in {<<>>, <<"0">>, <<"F", "a", "l", "s", "e">>,
                      <<"f", "a", "l", "s", "e">>}
            THEN BoolVal(FALSE) ELSE BoolVal(TRUE)
      [] OTHER -> NoValue

\* Mutant of clean_version: the comparison is inverted.
clean_version_inverted(value, initial_version) ==
    /\ Len(value) > 0
    /\ value # initial_version

\* clean_version, lines 104-110, after the required CharField's own clean:
\* TRUE when the version field validates.
clean_version(value, initial_version) ==
    /\ Len(value) > 0
    /\ value = initial_version

\* Mutant of FormErrors: the version field is not validated.
FormErrorsWithoutVersion(cfg, form, data) ==
    {n \in SettingNames(cfg) :
        FieldClean(form.fields[n], data.fields[n]) = NoValue}

\* form.is_valid() for a form bound to data: the names of the fields with
\* errors.
FormErrors(cfg, form, data) ==
    {n \in SettingNames(cfg) :
        FieldClean(form.fields[n], data.fields[n]) = NoValue}
    \cup (IF clean_version(data.version, form.version) THEN {} ELSE {"version"})

\* form.cleaned_data of a valid form
CleanedData(cfg, form, data) ==
    [n \in SettingNames(cfg) |-> FieldClean(form.fields[n], data.fields[n])]

\* ------------------------------------------------------------------- page
\* lines 157-171: one row per setting, in schema order.  initial holds every
\* setting name, so initial.get(name) is never None here.
RECURSIVE ConfigRows(_, _)
ConfigRows(cfg, initial) ==
    IF cfg = <<>> THEN <<>>
    ELSE LET name == cfg[1][1]
             default == cfg[1][2][1]
             value == initial[name]
         IN  << [name |-> name, default |-> default, value |-> value,
                 modified |-> value # default] >>
             \o ConfigRows(Tail(cfg), initial)

\* list.sort(key=itemgetter('name')), line 172: insertion into a sorted list,
\* after the rows with a key not greater (the sort is stable).
RECURSIVE InsertRow(_, _)
InsertRow(row, sorted) ==
    IF sorted = <<>> THEN <<row>>
    ELSE IF NameOrd[row.name] < NameOrd[sorted[1].name]
         THEN <<row>> \o sorted
         ELSE <<sorted[1]>> \o InsertRow(row, Tail(sorted))

RECURSIVE SortRows(_)
SortRows(rows) ==
    IF rows = <<>> THEN <<>>
    ELSE InsertRow(rows[Len(rows)], SortRows(SubSeq(rows, 1, Len(rows) - 1)))

\* Mutant of ContextConfig: the rows are left in schema order.
ContextConfigUnsorted(cfg, initial) == ConfigRows(cfg, initial)

\* context['config'], lines 157-172
ContextConfig(cfg, initial) == SortRows(ConfigRows(cfg, initial))

\* ------------------------------------------------------------ environment
DigitStrings == {[i \in 1..k |-> "1"] : k \in 1..MaxDigits}

\* What an operator may type into the widget of a field: for a number its
\* digits, 1 after a leading 0, or a letter.
Inputs(field_class) ==
    IF field_class = "BooleanField" THEN {<<>>, <<"o", "n">>}
    ELSE DigitStrings \cup {<<"0", "1">>, <<"x">>}

NoForm ==
    [has |-> FALSE, version |-> <<>>, fields |-> [n \in Names |-> <<>>],
     snap |-> [n \in Names |-> Absent]]

\* The form of a page rendered by a GET, as the browser holds it; snap is the
\* backend as the GET read it.
RenderedForm(cfg, form, initial, st) ==
    [has |-> TRUE, version |-> form.version,
     fields |-> [n \in Names |-> Rendered(form.fields[n], initial[n])],
     snap |-> st]

\* kind: "none" (no request yet, or one being saved), "denied"
\* (PermissionDenied), "error" (ImproperlyConfigured, bad naming the setting
\* and the type), "page" (the rendered template) or "redirect".
NoResponse ==
    [kind |-> "none", rows |-> <<>>, form_fields |-> <<>>, errors |-> {},
     message |-> FALSE, bad |-> <<>>]

\* The history of one request: its method, the bulk reads it made, whether
\* it constructed the form, the settings it wrote; and for a POST whether
\* it carried the fingerprint of a form rendered by a GET (carried), whether
\* the backend held at its bulk read what it held at that GET's (sameRead),
\* whether the two reads gave the same initial values (sameInitial), whether
\* every field was submitted as rendered (unmodified), whether the
\* submitted fingerprint was the one of the form it was checked against
\* (matched), whether the backend is as at its bulk read, nobody having
\* written since (untouched), and whether it passed validation while
\* another POST, of a form rendered from the same backend state, had passed
\* it with nothing written since (raced).
EmptyLog ==
    [method |-> "none", reads |-> 0, built |-> FALSE, writes |-> <<>>,
     carried |-> FALSE, sameRead |-> FALSE, sameInitial |-> FALSE,
     unmodified |-> FALSE, matched |-> FALSE, untouched |-> FALSE,
     raced |-> FALSE]

NoData == [n \in Names |-> NoValue]

\* Mutant of has_change_permission: superuser-only mode is ignored.
has_change_permission_any_mode(u) == u.change_perm

\* has_change_permission, lines 185-188
has_change_permission(u) ==
    IF SUPERUSER_ONLY THEN u.is_superuser ELSE u.change_perm

\* ---------------------------------------------------------------- actions
Init ==
    /\ CONFIG \in Schemas
    /\ SUPERUSER_ONLY \in BOOLEAN
    /\ user \in {[s \in Sessions |-> IF s = "s1" THEN SuperUser ELSE u] :
                    u \in {Staff, Guest}}
    /\ store = [n \in Names |-> Absent]
    /\ pc = [s \in Sessions |-> "idle"]
    /\ response = [s \in Sessions |-> NoResponse]
    /\ browser = [s \in Sessions |-> NoForm]
    /\ cleaned_data = [s \in Sessions |-> NoData]
    /\ saveIdx = [s \in Sessions |-> 0]
    /\ log = [s \in Sessions |-> EmptyLog]
    /\ lastSaved = [n \in Names |-> NoValue]

\* What the browser of s submits: the hidden version field of the form it
\* holds, and for each field what it holds or what the operator typed.  A
\* POST sent without a form carries no data.
PostData(s, form) ==
    LET typed(n) == IF browser[s].has
                    THEN Inputs(form.fields[n]) \cup {browser[s].fields[n]}
                    ELSE {<<>>}
        strings == UNION {typed(n) : n \in Names}
    IN  {[version |-> browser[s].version, fields |-> f] :
            f \in {g \in [Names -> strings] : \A n \in Names : g[n] \in typed(n)}}

\* The response of lines 149-177: the page with one row per setting and the
\* form, errors naming the fields that failed validation.
Page(cfg, initial, form, errors) ==
    [kind |-> "page", rows |-> ContextConfig(cfg, initial),
     form_fields |-> form.fields, errors |-> errors, message |-> FALSE,
     bad |-> <<>>]

\* raise PermissionDenied, line 131
Denied(s, method) ==
    /\ response' = [response EXCEPT ![s] = [NoResponse EXCEPT !.kind = "denied"]]
    /\ browser' = [browser EXCEPT ![s] = NoForm]
    /\ log' = [log EXCEPT ![s] = [EmptyLog EXCEPT !.method = method]]
    /\ cleaned_data' = [cleaned_data EXCEPT ![s] = NoData]
    /\ UNCHANGED <<pc, saveIdx>>

\* raise ImproperlyConfigured, lines 88-93
Misconfigured(s, method, form) ==
    /\ response' = [response EXCEPT ![s] =
                      [NoResponse EXCEPT !.kind = "error", !.bad = form.bad]]
    /\ browser' = [browser EXCEPT ![s] = NoForm]
    /\ log' = [log EXCEPT ![s] =
                  [EmptyLog EXCEPT !.method = method, !.reads = 1]]
    /\ cleaned_data' = [cleaned_data EXCEPT ![s] = NoData]
    /\ UNCHANGED <<pc, saveIdx>>

\* changelist_view for a GET, lines 130-137 and 149-177
Get(s) ==
    /\ pc[s] = "idle"
    /\ IF ~has_change_permission(user[s]) THEN Denied(s, "GET")
       ELSE LET initial == InitialOf(CONFIG, store)
                form == ConstanceForm(CONFIG, initial)
            IN  IF ~form.ok THEN Misconfigured(s, "GET", form)
                ELSE /\ response' = [response EXCEPT ![s] =
                                        Page(CONFIG, initial, form, {})]
                     /\ browser' = [browser EXCEPT ![s] =
                                       RenderedForm(CONFIG, form, initial, store)]
                     /\ log' = [log EXCEPT ![s] =
                                   [EmptyLog EXCEPT !.method = "GET",
                                                    !.reads = 1, !.built = TRUE]]
                     /\ cleaned_data' = [cleaned_data EXCEPT ![s] = NoData]
                     /\ UNCHANGED <<pc, saveIdx>>
    /\ UNCHANGED <<CONFIG, SUPERUSER_ONLY, user, store, lastSaved>>

\* changelist_view for a POST, lines 130-140, up to the start of save(), and
\* lines 149-177 when the form is invalid.  After the page with the errors
\* the operator reloads the form, as the error tells, before posting again.
Post(s) ==
    /\ pc[s] = "idle"
    /\ IF ~has_change_permission(user[s]) THEN Denied(s, "POST")
       ELSE LET initial == InitialOf(CONFIG, store)
                form == ConstanceForm(CONFIG, initial)
            IN  IF ~form.ok THEN Misconfigured(s, "POST", form)
                ELSE \E data \in PostData(s, form) :
                     LET errors == FormErrors(CONFIG, form, data)
                         posted ==
                            [EmptyLog EXCEPT
                               !.method = "POST", !.reads = 1, !.built = TRUE,
                               !.carried = browser[s].has,
                               !.sameRead = (store = browser[s].snap),
                               !.sameInitial =
                                   (initial = InitialOf(CONFIG, browser[s].snap)),
                               !.unmodified = (data.fields = browser[s].fields),
                               !.matched = (data.version = form.version),
                               !.untouched = (errors = {}),
                               !.raced =
                                   \E t \in Sessions \ {s} :
                                      /\ pc[t] = "save"
                                      /\ log[t].untouched
                                      /\ log[t].carried /\ log[t].sameRead
                                      /\ browser[s].has
                                      /\ store = browser[s].snap]
                     IN  /\ log' = [log EXCEPT ![s] = posted]
                         /\ browser' = [browser EXCEPT ![s] = NoForm]
                         /\ IF errors = {}
                            THEN \* form.save() starts, line 141
                                 /\ pc' = [pc EXCEPT ![s] = "save"]
                                 /\ cleaned_data' = [cleaned_data EXCEPT ![s] =
                                        CleanedData(CONFIG, form, data)]
                                 /\ saveIdx' = [saveIdx EXCEPT ![s] = 1]
                                 /\ response' = [response EXCEPT ![s] = NoResponse]
                            ELSE /\ response' = [response EXCEPT ![s] =
                                        Page(CONFIG, initial, form, errors)]
                                 /\ cleaned_data' = [cleaned_data EXCEPT ![s] = NoData]
                                 /\ UNCHANGED <<pc, saveIdx>>
    /\ UNCHANGED <<CONFIG, SUPERUSER_ONLY, user, store, lastSaved>>

\* What the last iteration of save() and lines 143-148 leave of session s.
SaveDone(s) ==
    /\ pc' = [pc EXCEPT ![s] = "idle"]
    /\ saveIdx' = [saveIdx EXCEPT ![s] = 0]
    /\ response' = [response EXCEPT ![s] =
          [NoResponse EXCEPT !.kind = "redirect", !.message = TRUE]]

\* Mutant of SaveField: a setting is written only when its submitted value
\* differs from the value the backend gives it.
SaveFieldIfChanged(s) ==
    /\ pc[s] = "save"
    /\ LET name == CONFIG[saveIdx[s]][1]
           changed == cleaned_data[s][name] # InitialOf(CONFIG, store)[name]
       IN  IF changed
           THEN /\ store' = backend_set(store, name, cleaned_data[s][name])
                /\ lastSaved' = [lastSaved EXCEPT ![name] = cleaned_data[s][name]]
                /\ log' = [t \in Sessions |->
                              IF t = s
                              THEN [log[t] EXCEPT !.writes = Append(@, name),
                                                  !.untouched = FALSE]
                              ELSE [log[t] EXCEPT !.untouched = FALSE]]
           ELSE UNCHANGED <<store, lastSaved, log>>
    /\ IF saveIdx[s] = Len(CONFIG)
       THEN SaveDone(s)
       ELSE /\ saveIdx' = [saveIdx EXCEPT ![s] = @ + 1]
            /\ UNCHANGED <<pc, response>>
    /\ UNCHANGED <<CONFIG, SUPERUSER_ONLY, user, browser, cleaned_data>>

\* Mutant of SaveField: save() writes all the settings in one step.
SaveAllAtOnce(s) ==
    /\ pc[s] = "save"
    /\ store' = [n \in Names |->
                    IF n \in SettingNames(CONFIG) THEN cleaned_data[s][n]
                    ELSE store[n]]
    /\ lastSaved' = [n \in Names |->
                        IF n \in SettingNames(CONFIG) THEN cleaned_data[s][n]
                        ELSE lastSaved[n]]
    /\ log' = [t \in Sessions |->
                  IF t = s
                  THEN [log[t] EXCEPT
                          !.writes = [i \in 1..Len(CONFIG) |-> CONFIG[i][1]],
                          !.untouched = FALSE]
                  ELSE [log[t] EXCEPT !.untouched = FALSE]]
    /\ SaveDone(s)
    /\ UNCHANGED <<CONFIG, SUPERUSER_ONLY, user, browser, cleaned_data>>

\* One iteration of save(), lines 101-102; after the last one the success
\* message and the redirect, lines 143-148.
SaveField(s) ==
    /\ pc[s] = "save"
    /\ LET name == CONFIG[saveIdx[s]][1]
       IN  /\ store' = backend_set(store, name, cleaned_data[s][name])
           /\ lastSaved' = [lastSaved EXCEPT ![name] = cleaned_data[s][name]]
           /\ log' = [t \in Sessions |->
                         IF t = s
                         THEN [log[t] EXCEPT !.writes = Append(@, name),
                                             !.untouched = FALSE]
                         ELSE [log[t] EXCEPT !.untouched = FALSE]]
    /\ IF saveIdx[s] = Len(CONFIG)
       THEN SaveDone(s)
       ELSE /\ saveIdx' = [saveIdx EXCEPT ![s] = @ + 1]
            /\ UNCHANGED <<pc, response>>
    /\ UNCHANGED <<CONFIG, SUPERUSER_ONLY, user, browser, cleaned_data>>

Next ==
    \/ \E s \in Sessions : Get(s)
    \/ \E s \in Sessions : Post(s)
    \/ \E s \in Sessions : SaveField(s)

Spec == Init /\ [][Next]_vars

\* ----------------------------------------------------------------- claims
\* A POST of s was rejected with the concurrent-modification error: it
\* is answered with the page, the version field carries the error, and it
\* wrote nothing.
Rejected(s) ==
    /\ pc[s] = "idle"
    /\ response[s].kind = "page"
    /\ "version" \in response[s].errors
    /\ log[s].writes = <<>>

\* C1: a POST that carries the fingerprint of a form rendered by a GET, and
\* whose bulk read gives for some setting another value than the bulk read of
\* that GET gave, is rejected with the concurrent-modification error and
\* writes nothing.
C1_ChangeBetweenGetAndPostRejected ==
    \A s \in Sessions :
        (log[s].method = "POST" /\ log[s].carried /\ ~log[s].sameInitial)
            => Rejected(s)

\* C2: a POST that carries the fingerprint of a form rendered by a GET, with
\* every field as rendered and the backend as that GET read it, passes the
\* version check: it is being saved, or saved and answered with the success
\* message and the redirect, and is never answered with the form and errors.
C2_UnchangedFormAccepted ==
    \A s \in Sessions :
        (log[s].method = "POST" /\ log[s].carried /\ log[s].sameRead
         /\ log[s].unmodified)
            => \/ /\ pc[s] = "save"
                  /\ saveIdx[s] \in 1..Len(CONFIG)
                  /\ response[s].kind = "none"
               \/ /\ pc[s] = "idle"
                  /\ response[s].kind = "redirect"
                  /\ response[s].message
                  /\ Len(log[s].writes) = Len(CONFIG)

C2_Witness ==
    \E s \in Sessions :
        /\ log[s].method = "POST" /\ log[s].carried /\ log[s].sameRead
        /\ log[s].unmodified
        /\ response[s].kind = "redirect"
        /\ \E n \in Names : store[n].t = "bool"

\* C3: the backend changes only in save() of a POST whose form validated,
\* version field included, and then in one setting to its cleaned value.  The
\* step that validates a POST writes nothing; when the submitted fingerprint
\* is not the form's it answers with the page and the version error, and
\* whenever it does not start save() it answers with the page and errors.
C3_InvalidPostWritesNothing ==
    [][ /\ store' # store =>
            \E s \in Sessions :
                /\ pc[s] = "save"
                /\ log[s].method = "POST"
                /\ log[s].carried /\ log[s].matched
                /\ \A n \in SettingNames(CONFIG) : cleaned_data[s][n] # NoValue
                /\ \E n \in SettingNames(CONFIG) :
                       store' = [store EXCEPT ![n] = cleaned_data[s][n]]
        /\ \A s \in Sessions :
               (/\ pc[s] = "idle"
                /\ log'[s].method = "POST" /\ log'[s].built
                /\ <<log[s], response[s], pc[s]>> # <<log'[s], response'[s], pc'[s]>>)
                   => /\ store' = store
                      /\ log'[s].writes = <<>>
                      /\ ~ (log'[s].carried /\ log'[s].matched)
                             => (pc'[s] = "idle" /\ "version" \in response'[s].errors)
                      /\ pc'[s] = "idle"
                             => (response'[s].kind = "page" /\ response'[s].errors # {})
                      /\ pc'[s] = "save"
                             => (response'[s].kind = "none" /\ log'[s].matched) ]_vars

C3_Witness ==
    \E s \in Sessions :
        /\ log[s].method = "POST" /\ log[s].carried /\ ~log[s].matched
        /\ response[s].kind = "page"
        /\ response[s].errors = {"version"}
        /\ \E n \in Names : store[n] # Absent

\* C4: the initial-value mapping the next form is built from (the defaults
\* overlaid with the bulk read) gives every setting that save() has written
\* the value it last wrote, whether that is its default or not.
C4_SavedValueIsNextInitial ==
    \A n \in SettingNames(CONFIG) :
        lastSaved[n] # NoValue
            => InitialOf(CONFIG, store)[n] = lastSaved[n]

\* A GET after a save shows one saved value that is the default and one that
\* is not.
C4_Witness ==
    \E s \in Sessions :
        /\ log[s].method = "GET" /\ response[s].kind = "page"
        /\ \A i \in 1..Len(response[s].rows) :
               response[s].rows[i].value = lastSaved[response[s].rows[i].name]
        /\ \E i, j \in 1..Len(response[s].rows) :
               /\ response[s].rows[i].value = response[s].rows[i].default
               /\ response[s].rows[j].value # response[s].rows[j].default

\* s has sent a request.
Requested(s) == log[s].method # "none"

\* C5: a request that is denied has read nothing from the backend, written
\* nothing, built no form and rendered nothing, and a request is denied
\* exactly when the authorization check fails: in superuser-only mode when
\* the user is no superuser, otherwise when the user lacks the change
\* permission.
C5_PermissionGate ==
    \A s \in Sessions :
        /\ response[s].kind = "denied"
              => /\ log[s].reads = 0 /\ ~log[s].built /\ log[s].writes = <<>>
                 /\ response[s].rows = <<>> /\ response[s].form_fields = <<>>
                 /\ pc[s] = "idle"
        /\ Requested(s) =>
              (response[s].kind = "denied"
                  <=> IF SUPERUSER_ONLY THEN ~user[s].is_superuser
                      ELSE ~user[s].change_perm)

\* In superuser-only mode a user with the change permission who is no
\* superuser is denied, after the superuser has saved.
C5_Witness ==
    /\ SUPERUSER_ONLY
    /\ \E s, t \in Sessions :
          /\ response[s].kind = "denied" /\ log[s].method = "POST"
          /\ user[s].change_perm /\ ~user[s].is_superuser
          /\ response[t].kind = "redirect" /\ user[t].is_superuser

\* The settings of the schema, in iteration order, whose type (the third
\* element of the options when there is one, else the type of the default)
\* the registry does not hold.
Unsupported ==
    LET type(i) == IF Len(CONFIG[i][2]) = 3 THEN CONFIG[i][2][3]
                   ELSE CONFIG[i][2][1].t
    IN  {i \in 1..Len(CONFIG) : type(i) \notin {"bool", "int"}}

Current(st, n) ==
    IF st[n] # Absent THEN st[n]
    ELSE CONFIG[CHOOSE i \in 1..Len(CONFIG) : CONFIG[i][1] = n][2][1]

\* C7: every page rendered, by a GET or by a POST whose form is invalid, has
\* exactly one row per setting, the rows sorted by name, each row's modified
\* flag telling whether the setting's current value, as the request read it,
\* differs from its default.
C7_RowsSortedAndModifiedFlag ==
    [][ \A s \in Sessions :
          (response'[s].kind = "page" /\ response'[s] # response[s])
             => LET rows == response'[s].rows
                IN  /\ Len(rows) = Cardinality(SettingNames(CONFIG))
                    /\ {rows[i].name : i \in 1..Len(rows)} = SettingNames(CONFIG)
                    /\ \A i, j \in 1..Len(rows) :
                          i < j => NameOrd[rows[i].name] < NameOrd[rows[j].name]
                    /\ \A i \in 1..Len(rows) :
                          /\ rows[i].value = Current(store, rows[i].name)
                          /\ rows[i].modified <=>
                                Current(store, rows[i].name)
                                    # Current([n \in Names |-> Absent], rows[i].name)
      ]_vars

\* The page of a POST with an invalid form, in a schema that is not in name
\* order, with one modified row and one that is not.
C7_Witness ==
    \E s \in Sessions :
        /\ response[s].kind = "page" /\ response[s].errors # {}
        /\ NameOrd[CONFIG[1][1]] > NameOrd[CONFIG[2][1]]
        /\ response[s].rows[1].modified
        /\ ~response[s].rows[2].modified

\* C8: the form in a rendered page has exactly one field per setting, under
\* the setting's name and of the class the registry gives its type, and
\* besides these only the version field.
C8_OneFieldPerSetting ==
    \A s \in Sessions :
        response[s].kind = "page" =>
            LET fields == response[s].form_fields
            IN  /\ DOMAIN fields = SettingNames(CONFIG) \cup {"version"}
                /\ Cardinality(DOMAIN fields) = Len(CONFIG) + 1
                /\ fields["version"] = "CharField"
                /\ \A i \in 1..Len(CONFIG) :
                      LET type == IF Len(CONFIG[i][2]) = 3 THEN CONFIG[i][2][3]
                                  ELSE CONFIG[i][2][1].t
                      IN  fields[CONFIG[i][1]] =
                              (IF type = "bool" THEN "BooleanField"
                               ELSE "IntegerField")

\* A page whose form has a checkbox and a number field, one of them typed
\* explicitly.
C8_Witness ==
    \E s \in Sessions :
        /\ response[s].kind = "page"
        /\ \E i \in 1..Len(CONFIG) : Len(CONFIG[i][2]) = 3
        /\ {response[s].form_fields[n] : n \in SettingNames(CONFIG)}
               = {"BooleanField", "IntegerField"}

\* The names of the settings in schema iteration order.
NamesInOrder == [i \in 1..Len(CONFIG) |-> CONFIG[i][1]]

\* C9 as stated: save() writes a setting only when the submitted value
\* differs from the setting's current value.
C9_WritesOnlyChanged ==
    [][ \A s \in Sessions : \A n \in SettingNames(CONFIG) :
          (pc[s] = "save" /\ log'[s].writes = Append(log[s].writes, n))
             => cleaned_data[s][n] # Current(store, n) ]_vars

\* C9 amended: a successful save has written every setting of the schema
\* exactly once, in schema order, whether its submitted value differs from
\* the current one or not (a save under way has written the settings before
\* the loop's position), and after it no setting is absent from the backend.
C9_WritesEverySetting ==
    \A s \in Sessions :
        /\ pc[s] = "save"
              => log[s].writes = SubSeq(NamesInOrder, 1, saveIdx[s] - 1)
        /\ response[s].kind = "redirect"
              => /\ log[s].writes = NamesInOrder
                 /\ \A n \in SettingNames(CONFIG) : store[n] # Absent

\* A form submitted as rendered from an empty backend has been saved: both
\* settings were written and now hold their defaults.
C9_Witness ==
    \E s \in Sessions :
        /\ response[s].kind = "redirect"
        /\ log[s].carried /\ log[s].sameRead /\ log[s].unmodified
        /\ Len(log[s].writes) = 2
        /\ \A n \in Names :
              /\ lastSaved[n] = cleaned_data[s][n]
              /\ store[n] = Current([m \in Names |-> Absent], n)

\* C10: save() is not atomic: each step of it changes one setting of the
\* backend, the one at the position of its loop, and two POSTs may both be
\* inside save() at once.
C10_SaveWritesOneSettingPerStep ==
    [][ store' # store =>
          \E s \in Sessions :
             /\ pc[s] = "save"
             /\ \A n \in Names \ {CONFIG[saveIdx[s]][1]} : store'[n] = store[n] ]_vars

\* Two POSTs of forms rendered from the same backend state both passed the
\* fingerprint check before either wrote, both saved, and the backend ends
\* with one setting as the first submitted it and the other as the second
\* did, the two submissions differing in both.
C10_Witness ==
    \E s, t \in Sessions :
        /\ s # t
        /\ response[s].kind = "redirect" /\ response[t].kind = "redirect"
        /\ log[s].carried /\ log[s].sameRead /\ log[s].matched
        /\ log[t].carried /\ log[t].sameRead /\ log[t].matched /\ log[t].raced
        /\ \A n \in Names : cleaned_data[s][n] # cleaned_data[t][n]
        /\ store[CONFIG[1][1]] = cleaned_data[s][CONFIG[1][1]]
        /\ store[CONFIG[2][1]] = cleaned_data[t][CONFIG[2][1]]

=============================================================================
